---- MODULE Spec2Model ----
(***************************************************************************)
(* Sequential outbound call dispatch scheduler of the voice-bot platform:  *)
(* the batch planner (POST /api/scheduled-calls), the cancel endpoint      *)
(* (DELETE /api/scheduled-calls/[id]), the dispatch trigger                *)
(* (/api/webhooks/qstash/trigger-call) with its recovery continuation, and *)
(* the provider webhook (/api/webhooks/retell) with its daisy-chaining.    *)
(*                                                                         *)
(* Every handler is a stateless HTTP endpoint; each `await` on the store,  *)
(* the telephony provider or the delayed-delivery service is a point where *)
(* other handlers may run.  A handler run is therefore a record holding    *)
(* its position (pc) and its locals, and each action below is one stretch  *)
(* of handler code between two such points.  Time is counted in minutes.   *)
(*                                                                         *)
(* Scope.  Store calls succeed, except the insert of a Call whose          *)
(* retellCallId exists (unique index), which throws.  The delivery service *)
(* delivers a message any number of times once it is due.  The provider    *)
(* sends call_started and call_analyzed for a call it accepted, at any     *)
(* time after accepting it.  A trigger message always carries the id of an *)
(* existing row, rows are never deleted, so the 400 and 404 answers of the *)
(* trigger have no step.  The polling dispatcher                           *)
(* (/api/cron/process-scheduled-calls) has its own specification,          *)
(* SpecCron; the other specifications are the system without it.  The      *)
(* variable map of the dispatch payload is modelled at the end, as a pure  *)
(* function of its four layers.                                            *)
(***************************************************************************)
EXTENDS Integers, Sequences, FiniteSets, Bags, TLC

(* ------------------------------ bounds -------------------------------- *)
MaxContacts == 2
MaxPosts == 1
MaxEvents == 3
MaxPlanPosts == 2
MaxPlanEvents == 1
MaxStartSlot == 1
MaxSeedTime == 27
PlanStart == 12
MaxAdmitPosts == 2
MaxCronRuns == 4
MaxCronOverlap == 1
MaxMixedEvents == 2
MaxMixedBatch == 2

(* ------------------------- program constants -------------------------- *)
Stagger == 2
Buffer == 10
Lookback == 12
AppendGap == 12
MaxAttempts == 3
CronTake == 10

(* ------------------------------ domains ------------------------------- *)
Orgs == {1, 2}
NoOrg == 0
Contacts == {1, 2, 3}
AgentIds == {1, 2}
NoBatch == 0
NoRef == 0
NoRow == 0
NoTime == -1
Statuses == {"PENDING", "IN_PROGRESS", "COMPLETED", "FAILED", "CANCELLED"}
ActiveStatuses == {"PENDING", "IN_PROGRESS"}

\* The organization owning each contact (the contacts table is only read here).
ContactOrg(c) == IF c = 3 THEN 2 ELSE 1

VARIABLES
  rows,      \* ScheduledCall table: sequence in creation order, row id = index
  agents,    \* Agent table: retellAgentId -> owning organization, or NoOrg
  calls,     \* Call table: set of records, unique by provider reference
  queue,     \* messages held by the delayed-delivery service
  runs,      \* bag of dispatch-trigger handler runs in flight
  hooks,     \* bag of provider-webhook handler runs in flight
  cancels,   \* bag of cancel requests in flight
  posts,     \* bag of batch-creation requests in flight
  placed,    \* provider side: accepted placements, provider reference = index
  now,       \* wall clock, minutes
  cnt,       \* requests received: batch requests, batches made, other events
  resp,      \* the HTTP response sent by the step just taken, or NoResp
  obs,       \* publishes accepted (those of a webhook also by provider call),
             \* webhooks received, cancels granted (never read)
  hist,      \* per row: placement requests sent, terminal statuses written
  crons,     \* bag of polling-dispatcher runs in flight
  payload    \* the variable map of a placement request and what it was built from

vars == <<rows, agents, calls, queue, runs, hooks, cancels, posts, placed, now, cnt,
          resp, obs, hist, crons, payload>>

RowIds == 1..Len(rows)
Refs == 1..Len(placed)

NoResp == [h |-> "none", id |-> NoRow, status |-> 0, org |-> NoOrg]
Response(h, id, status) == [h |-> h, id |-> id, status |-> status, org |-> NoOrg]
\* The answer to a cancel request of tenant org.
CancelResponse(org, id, status) == [Response("cancel", id, status) EXCEPT !.org = org]

\* No placement request has been built.
NoPayload == [custom |-> <<>>, provided |-> <<>>, hour |-> 0, by |-> "none", sent |-> <<>>]

(* --------------------------- bag helpers ------------------------------ *)
Put(b, e) == b (+) SetToBag({e})
Take(b, e) == b (-) SetToBag({e})
Swap(b, e, f) == Put(Take(b, e), f)

(* ----------------------------- store ---------------------------------- *)
\* prisma.scheduledCall.update({where: {id}, data}): an unconditional write.
SetStatus(rs, id, st) == [rs EXCEPT ![id].status = st]

\* A freshly created ScheduledCall row (schema defaults: attempts 0, no ref,
\* no callId).  A Call record is identified by its provider reference, so
\* callId holds the reference of the Call the row links to.
NewRow(org, batch, contact, agent, time) ==
  [org |-> org, batch |-> batch, contact |-> contact, agent |-> agent,
   time |-> time, status |-> "PENDING", attempts |-> 0, ref |-> NoRef,
   callId |-> NoRef, err |-> FALSE, executed |-> FALSE]

\* All orderings (sequences without repetition) of a finite set.
Orderings(S) ==
  {f \in [1..Cardinality(S) -> S] : \A i, j \in 1..Cardinality(S) : f[i] = f[j] => i = j}

\* publishJSON({body: {scheduledCallId: id}, notBefore: nb}) accepted by the
\* delivery service.
Publish(q, id, nb) == q \cup {[id |-> id, nb |-> nb]}

Published(o, id, nb, by) == [o EXCEPT !.pub = @ \cup {[id |-> id, nb |-> nb, by |-> by]}]

(* -------------------- batch planner: POST handler --------------------- *)
\* Variant of FoundContacts without the organizationId filter.
FoundContactsOfAnyTenant(org, ids) ==
  {c \in Contacts : \E i \in 1..Len(ids) : ids[i] = c}

\* contacts = findMany({id in contactIds, organizationId}): the set of rows
\* matching; the query has no orderBy.
FoundContacts(org, ids) ==
  {c \in Contacts : (\E i \in 1..Len(ids) : ids[i] = c) /\ ContactOrg(c) = org}

\* Variant of ConflictingCall without the organizationId filter.
ConflictingCallOfAnyTenant(rs, org, start, n) ==
  \E i \in 1..Len(rs) :
     /\ rs[i].status \in ActiveStatuses
     /\ rs[i].time > start - Lookback
     /\ rs[i].time < start + n * Stagger + Buffer

\* Variant of ConflictingCall with gte / lte in place of gt / lt.
ConflictingCallClosed(rs, org, start, n) ==
  \E i \in 1..Len(rs) :
     /\ rs[i].org = org
     /\ rs[i].status \in ActiveStatuses
     /\ rs[i].time >= start - Lookback
     /\ rs[i].time <= start + n * Stagger + Buffer

\* findFirst over PENDING/IN_PROGRESS rows of the tenant with scheduledTime
\* strictly between conflictCheckStart and conflictCheckEnd (gt / lt).
ConflictingCall(rs, org, start, n) ==
  \E i \in 1..Len(rs) :
     /\ rs[i].org = org
     /\ rs[i].status \in ActiveStatuses
     /\ rs[i].time > start - Lookback
     /\ rs[i].time < start + n * Stagger + Buffer

\* Variant of LastScheduledTime with orderBy scheduledTime asc.
FirstScheduledTime(rs, org) ==
  LET act == {i \in 1..Len(rs) : rs[i].org = org /\ rs[i].status \in ActiveStatuses}
  IN IF act = {} THEN NoTime
     ELSE CHOOSE t \in {rs[i].time : i \in act} : \A i \in act : rs[i].time >= t

\* findFirst over PENDING/IN_PROGRESS rows of the tenant, orderBy scheduledTime
\* desc: the latest active fire time, or NoTime when there is none.
LastScheduledTime(rs, org) ==
  LET act == {i \in 1..Len(rs) : rs[i].org = org /\ rs[i].status \in ActiveStatuses}
  IN IF act = {} THEN NoTime
     ELSE CHOOSE t \in {rs[i].time : i \in act} : \A i \in act : rs[i].time <= t

\* batchStartTime after the conflict branch (lines 133-152).
AdjustedStart(rs, org, start) ==
  LET last == LastScheduledTime(rs, org)
  IN IF last # NoTime THEN last + AppendGap ELSE start

\* callTime of the contact at position idx (from 0) of the contacts array.
CallTime(start, idx) == start + idx * Stagger

\* Handler up to and including the conflict query (lines 64-131): contact
\* ownership check, agent lookup / auto-registration, conflict query.
P_Begin(limit, org, ids, start, agent) ==
  /\ cnt.posts < limit
  /\ cnt' = [cnt EXCEPT !.posts = @ + 1]
  /\ LET found == FoundContacts(org, ids)
     IN IF Cardinality(found) # Len(ids)
        THEN /\ resp' = Response("post", NoRow, 404)
             /\ UNCHANGED <<agents, posts>>
        ELSE IF agents[agent] \notin {NoOrg, org}
        THEN /\ resp' = Response("post", NoRow, 403)
             /\ UNCHANGED <<agents, posts>>
        ELSE /\ agents' = [agents EXCEPT ![agent] = org]
             /\ \E order \in Orderings(found) :
                  LET c == ConflictingCall(rows, org, start, Cardinality(found))
                  IN posts' = Put(posts,
                       [org |-> org, ids |-> ids, contacts |-> order, start |-> start,
                        agent |-> agent, conflict |-> c, eff |-> start,
                        batch |-> NoBatch, todo |-> 1..Len(ids),
                        pc |-> IF c THEN "last" ELSE "create"])
             /\ resp' = NoResp
  /\ UNCHANGED <<rows, calls, queue, runs, hooks, cancels, placed, now, obs, hist>>
  /\ UNCHANGED <<crons, payload>>

\* Lines 133-152: on a conflict, append after the tenant's latest active row.
P_Last(p) ==
  /\ p \in BagToSet(posts) /\ p.pc = "last"
  /\ posts' = Swap(posts, p,
        [p EXCEPT !.pc = "create", !.eff = AdjustedStart(rows, p.org, p.start)])
  /\ resp' = NoResp
  /\ UNCHANGED <<rows, agents, calls, queue, runs, hooks, cancels, placed, now, cnt,
                 obs, hist>>
  /\ UNCHANGED <<crons, payload>>

\* Variant of PublishedAtCreation without the index test.
PublishedForEvery(idx) == TRUE

\* Line 207, if (index === 0): the callback that publishes its row.
PublishedAtCreation(idx) == idx = 1

\* Line 209: notBefore = Math.floor(callTime.getTime() / 1000), the callTime
\* in whole seconds.  Time is counted in whole minutes here, t minutes being
\* 60 * t seconds, and the held message is compared with the clock in minutes.
NotBefore(t) == (60 * t) \div 60

\* Lines 157-230.  The rows of the batch are inserted by concurrent callbacks
\* (Promise.all over contacts.map), so the inserts complete in any order.  This
\* step is the callback of the contact at position idx of the contacts array:
\* it inserts the row with the batch id of line 158 and callTime of lines
\* 179-180, and for the contact of index 0 it publishes the row with notBefore
\* = its callTime, a failed publish being caught.  When the last callback has
\* finished the handler answers 201.
P_Create(p, idx, pubOk) ==
  /\ p \in BagToSet(posts) /\ p.pc = "create"
  /\ idx \in p.todo
  /\ idx = 1 \/ pubOk
  /\ LET batch == IF p.batch = NoBatch THEN cnt.batches + 1 ELSE p.batch
         id == Len(rows) + 1
         q == [p EXCEPT !.batch = batch, !.todo = @ \ {idx}]
         first == PublishedAtCreation(idx) /\ pubOk
     IN /\ rows' = Append(rows, NewRow(p.org, batch, p.contacts[idx], p.agent,
                                       CallTime(p.eff, idx - 1)))
        /\ hist' = Append(hist, [placements |-> 0, terminals |-> 0])
        /\ cnt' = [cnt EXCEPT !.batches = IF p.batch = NoBatch THEN batch ELSE @]
        /\ queue' = IF first THEN Publish(queue, id, NotBefore(p.eff)) ELSE queue
        /\ obs' = IF first THEN Published(obs, id, NotBefore(p.eff), "create") ELSE obs
        /\ IF q.todo = {}
           THEN posts' = Take(posts, p) /\ resp' = Response("post", id, 201)
           ELSE posts' = Swap(posts, p, q) /\ resp' = NoResp
  /\ UNCHANGED <<agents, calls, runs, hooks, cancels, placed, now>>
  /\ UNCHANGED <<crons, payload>>

(* ------------------------ cancel: DELETE handler ---------------------- *)
\* Variant of Cancellable that also lets a call in flight be cancelled.
CancellableInFlight(row) == row.status \in {"PENDING", "IN_PROGRESS"}

\* The state check of line 32.
Cancellable(row) == row.status = "PENDING"

\* Lines 12-36: load the row, check the tenant and that it is PENDING.
CancelRead(limit, org, id) ==
  /\ cnt.events < limit
  /\ id \in RowIds
  /\ cnt' = [cnt EXCEPT !.events = @ + 1]
  /\ IF rows[id].org # org
     THEN /\ resp' = CancelResponse(org, id, 403)
          /\ UNCHANGED cancels
     ELSE IF ~ Cancellable(rows[id])
     THEN /\ resp' = CancelResponse(org, id, 400)
          /\ UNCHANGED cancels
     ELSE /\ cancels' = Put(cancels, [id |-> id])
          /\ resp' = NoResp
  /\ UNCHANGED <<rows, agents, calls, queue, runs, hooks, posts, placed, now, obs, hist>>
  /\ UNCHANGED <<crons, payload>>

\* Lines 38-43: write CANCELLED (where: {id} only) and answer success.
CancelWrite(c) ==
  /\ c \in BagToSet(cancels)
  /\ rows' = SetStatus(rows, c.id, "CANCELLED")
  /\ cancels' = Take(cancels, c)
  /\ resp' = CancelResponse(rows[c.id].org, c.id, 200)
  /\ hist' = [hist EXCEPT ![c.id].terminals = @ + 1]
  /\ obs' = [obs EXCEPT !.cancelled = @ \cup {c.id}]
  /\ UNCHANGED <<agents, calls, queue, runs, hooks, posts, placed, now, cnt>>
  /\ UNCHANGED <<crons, payload>>

(* ------------- dispatch trigger: qstash trigger-call handler ---------- *)
\* Variant of NextScheduledCall without the status filter.
NextCallAnyStatus(rs, cur) ==
  LET cand == {i \in 1..Len(rs) : /\ rs[i].org = cur.org
                                  /\ rs[i].batch = cur.batch}
  IN IF cand = {} THEN NoRow
     ELSE CHOOSE i \in cand :
            \A j \in cand : \/ rs[i].time < rs[j].time
                            \/ (rs[i].time = rs[j].time /\ i <= j)

\* Variant of NextScheduledCall without the batchId filter.
NextCallOfTenant(rs, cur) ==
  LET cand == {i \in 1..Len(rs) : /\ rs[i].org = cur.org
                                  /\ rs[i].status = "PENDING"}
  IN IF cand = {} THEN NoRow
     ELSE CHOOSE i \in cand :
            \A j \in cand : \/ rs[i].time < rs[j].time
                            \/ (rs[i].time = rs[j].time /\ i <= j)

\* The continuation lookup (trigger lines 310-327, webhook lines 479-498):
\* the first PENDING row of cur's organization with cur's batchId (null for a
\* legacy row), orderBy scheduledTime asc, createdAt asc; NoRow when none.
NextScheduledCall(rs, cur) ==
  LET cand == {i \in 1..Len(rs) : /\ rs[i].org = cur.org
                                  /\ rs[i].status = "PENDING"
                                  /\ rs[i].batch = cur.batch}
  IN IF cand = {} THEN NoRow
     ELSE CHOOSE i \in cand :
            \A j \in cand : \/ rs[i].time < rs[j].time
                            \/ (rs[i].time = rs[j].time /\ i <= j)

\* Variant of AlreadyProcessed that lets a row in flight through.
AlreadyFinished(row) == row.status \notin {"PENDING", "IN_PROGRESS"}

\* The idempotency guard of line 189.
AlreadyProcessed(row) == row.status # "PENDING"

\* The delivery service hands message m to the handler (at-least-once: with
\* keep, the message stays for another delivery).  Lines 165-192: load the
\* row; anything but PENDING is answered 200 without further work.
Deliver(limit, m, keep) ==
  /\ cnt.events < limit
  /\ m \in queue
  /\ m.nb = NoTime \/ m.nb <= now
  /\ cnt' = [cnt EXCEPT !.events = @ + 1]
  /\ queue' = IF keep THEN queue ELSE queue \ {m}
  /\ IF AlreadyProcessed(rows[m.id])
     THEN /\ resp' = Response("trigger", m.id, 200)
          /\ UNCHANGED runs
     ELSE /\ runs' = Put(runs, [id |-> m.id, pc |-> "mark", ref |-> NoRef, next |-> NoRow])
          /\ resp' = NoResp
  /\ UNCHANGED <<rows, agents, calls, hooks, cancels, posts, placed, now, obs, hist>>
  /\ UNCHANGED <<crons, payload>>

\* Lines 195-198: update where {id}: status IN_PROGRESS, attempts + 1.
T_Mark(r) ==
  /\ r \in BagToSet(runs) /\ r.pc = "mark"
  /\ rows' = [rows EXCEPT ![r.id].status = "IN_PROGRESS", ![r.id].attempts = @ + 1]
  /\ runs' = Swap(runs, r, [r EXCEPT !.pc = "place"])
  /\ resp' = NoResp
  /\ UNCHANGED <<agents, calls, queue, hooks, cancels, posts, placed, now, cnt, obs, hist>>
  /\ UNCHANGED <<crons, payload>>

\* Lines 200-260: the placement.  "nokey": RETELL_API_KEY is not configured
\* and no request is sent; "error": the request is sent and fails; "ok": the
\* provider accepts the call and returns a fresh call_id.
T_Place(r, outcome) ==
  /\ r \in BagToSet(runs) /\ r.pc = "place"
  /\ hist' = IF outcome = "nokey" THEN hist
             ELSE [hist EXCEPT ![r.id].placements = @ + 1]
  /\ IF outcome = "ok"
     THEN /\ placed' = Append(placed, r.id)
          /\ runs' = Swap(runs, r, [r EXCEPT !.pc = "complete", !.ref = Len(placed) + 1])
     ELSE /\ runs' = Swap(runs, r, [r EXCEPT !.pc = "fail"])
          /\ UNCHANGED placed
  /\ resp' = NoResp
  /\ UNCHANGED <<rows, agents, calls, queue, hooks, cancels, posts, now, cnt, obs>>
  /\ UNCHANGED <<crons, payload>>

\* Lines 262-275: update where {id}: COMPLETED, retellCallId, executedAt.
T_Complete(r) ==
  /\ r \in BagToSet(runs) /\ r.pc = "complete"
  /\ rows' = [rows EXCEPT ![r.id].status = "COMPLETED", ![r.id].ref = r.ref,
                          ![r.id].executed = TRUE]
  /\ hist' = [hist EXCEPT ![r.id].terminals = @ + 1]
  /\ runs' = Swap(runs, r, [r EXCEPT !.pc = "call"])
  /\ resp' = NoResp
  /\ UNCHANGED <<agents, calls, queue, hooks, cancels, posts, placed, now, cnt, obs>>
  /\ UNCHANGED <<crons, payload>>

\* Lines 277-291: create the Call record and answer 200.  calls.retellCallId
\* is unique: when a Call with this reference exists the insert throws and
\* control passes to the catch block of line 293.
T_CreateCall(r) ==
  /\ r \in BagToSet(runs) /\ r.pc = "call"
  /\ IF \E c \in calls : c.ref = r.ref
     THEN /\ runs' = Swap(runs, r, [r EXCEPT !.pc = "fail"])
          /\ resp' = NoResp
          /\ UNCHANGED calls
     ELSE /\ calls' = calls \cup {[ref |-> r.ref, org |-> rows[r.id].org,
                                   contact |-> rows[r.id].contact, by |-> "trigger"]}
          /\ runs' = Take(runs, r)
          /\ resp' = Response("trigger", r.id, 200)
  /\ UNCHANGED <<rows, agents, queue, hooks, cancels, posts, placed, now, cnt, obs, hist>>
  /\ UNCHANGED <<crons, payload>>

\* Lines 293-302: the catch block records the failure: update where {id}.
T_Fail(r) ==
  /\ r \in BagToSet(runs) /\ r.pc = "fail"
  /\ rows' = [rows EXCEPT ![r.id].status = "FAILED", ![r.id].err = TRUE]
  /\ hist' = [hist EXCEPT ![r.id].terminals = @ + 1]
  /\ runs' = Swap(runs, r, [r EXCEPT !.pc = "recover"])
  /\ resp' = NoResp
  /\ UNCHANGED <<agents, calls, queue, hooks, cancels, posts, placed, now, cnt, obs>>
  /\ UNCHANGED <<crons, payload>>

\* The answer of the catch block of the older handler kept in the same file
\* (line 488): an error status, on which the delivery service delivers again.
FailedResponseRetried(id) == Response("trigger", id, 500)

\* Line 349: the answer once the failure is recorded and the continuation
\* was attempted: 200, so that the delivery service does not deliver again.
FailedResponse(id) == Response("trigger", id, 200)

\* Lines 307-343: recovery lookup of the next PENDING row of the batch; with
\* none left the handler answers 200 (line 349).
T_Recover(r) ==
  /\ r \in BagToSet(runs) /\ r.pc = "recover"
  /\ LET nxt == NextScheduledCall(rows, rows[r.id])
     IN IF nxt = NoRow
        THEN /\ runs' = Take(runs, r)
             /\ resp' = FailedResponse(r.id)
        ELSE /\ runs' = Swap(runs, r, [r EXCEPT !.pc = "publish", !.next = nxt])
             /\ resp' = NoResp
  /\ UNCHANGED <<rows, agents, calls, queue, hooks, cancels, posts, placed, now, cnt,
                 obs, hist>>
  /\ UNCHANGED <<crons, payload>>

\* Variant of T_Publish in which a throw of publishJSON is not caught: it
\* reaches the outer catch, which answers 500, and the delivery service keeps
\* the message of the failed row for another delivery.
T_PublishUncaught(r, pubOk) ==
  /\ r \in BagToSet(runs) /\ r.pc = "publish"
  /\ queue' = IF pubOk THEN Publish(queue, r.next, NoTime)
              ELSE Publish(queue, r.id, NoTime)
  /\ obs' = IF pubOk THEN Published(obs, r.next, NoTime, "recovery") ELSE obs
  /\ runs' = Take(runs, r)
  /\ resp' = IF pubOk THEN FailedResponse(r.id) ELSE FailedResponseRetried(r.id)
  /\ UNCHANGED <<rows, agents, calls, cancels, hooks, posts, placed, now, cnt, hist>>
  /\ UNCHANGED <<crons, payload>>

\* Lines 329-349: publishJSON without notBefore; a throw is caught and only
\* logged; the handler answers 200 either way.
T_Publish(r, pubOk) ==
  /\ r \in BagToSet(runs) /\ r.pc = "publish"
  /\ queue' = IF pubOk THEN Publish(queue, r.next, NoTime) ELSE queue
  /\ obs' = IF pubOk THEN Published(obs, r.next, NoTime, "recovery") ELSE obs
  /\ runs' = Take(runs, r)
  /\ resp' = FailedResponse(r.id)
  /\ UNCHANGED <<rows, agents, calls, cancels, hooks, posts, placed, now, cnt, hist>>
  /\ UNCHANGED <<crons, payload>>

(* ------------------- provider webhook: retell handler ----------------- *)
\* The Call record the webhook upserts for provider reference ref: the
\* organization is the agent's, the contact is found by the dialled number.
HookCall(ref) ==
  [ref |-> ref, org |-> agents[rows[placed[ref]].agent],
   contact |-> rows[placed[ref]].contact, by |-> "webhook"]

UpsertCall(cs, ref) ==
  IF \E c \in cs : c.ref = ref THEN cs ELSE cs \cup {HookCall(ref)}

\* call_started (lines 224-285): upsert the Call by retellCallId.
CallStarted(ref) ==
  /\ ref \in Refs
  /\ ~ \E c \in calls : c.ref = ref
  /\ calls' = UpsertCall(calls, ref)
  /\ resp' = Response("hook", NoRow, 200)
  /\ UNCHANGED <<rows, agents, queue, runs, hooks, cancels, posts, placed, now, cnt,
                 obs, hist>>
  /\ UNCHANGED <<crons, payload>>

\* call_analyzed (lines 287-465): upsert the Call, its summary and recording,
\* send the notification mail.
H_Begin(limit, ref) ==
  /\ cnt.events < limit
  /\ ref \in Refs
  /\ cnt' = [cnt EXCEPT !.events = @ + 1]
  /\ calls' = UpsertCall(calls, ref)
  /\ hooks' = Put(hooks, [ref |-> ref, pc |-> "current", cur |-> NoRow, next |-> NoRow])
  /\ obs' = [obs EXCEPT !.analyzed = @ \cup {ref}]
  /\ resp' = NoResp
  /\ UNCHANGED <<rows, agents, queue, runs, cancels, posts, placed, now, hist>>
  /\ UNCHANGED <<crons, payload>>

\* Lines 470-474: the ScheduledCall whose retellCallId is this call's.
H_Current(h) ==
  /\ h \in BagToSet(hooks) /\ h.pc = "current"
  /\ LET cur == {i \in RowIds : rows[i].ref = h.ref}
     IN IF cur = {}
        THEN /\ hooks' = Take(hooks, h)
             /\ resp' = Response("hook", NoRow, 200)
        ELSE /\ hooks' = Swap(hooks, h, [h EXCEPT !.pc = "next", !.cur = CHOOSE i \in cur : TRUE])
             /\ resp' = NoResp
  /\ UNCHANGED <<rows, agents, calls, queue, runs, cancels, posts, placed, now, cnt,
                 obs, hist>>
  /\ UNCHANGED <<crons, payload>>

\* Lines 477-498: the next PENDING row of that row's batch.
H_Next(h) ==
  /\ h \in BagToSet(hooks) /\ h.pc = "next"
  /\ LET nxt == NextScheduledCall(rows, rows[h.cur])
     IN IF nxt = NoRow
        THEN /\ hooks' = Take(hooks, h)
             /\ resp' = Response("hook", h.cur, 200)
        ELSE /\ hooks' = Swap(hooks, h, [h EXCEPT !.pc = "publish", !.next = nxt])
             /\ resp' = NoResp
  /\ UNCHANGED <<rows, agents, calls, queue, runs, cancels, posts, placed, now, cnt,
                 obs, hist>>
  /\ UNCHANGED <<crons, payload>>

\* Lines 500-529: publishJSON without notBefore; a throw is caught and logged.
H_Publish(h, pubOk) ==
  /\ h \in BagToSet(hooks) /\ h.pc = "publish"
  /\ queue' = IF pubOk THEN Publish(queue, h.next, NoTime) ELSE queue
  /\ obs' = IF pubOk
            THEN [Published(obs, h.next, NoTime, "webhook") EXCEPT
                    !.chained = @ \cup {[ref |-> h.ref, id |-> h.next]}]
            ELSE obs
  /\ hooks' = Take(hooks, h)
  /\ resp' = Response("hook", h.cur, 200)
  /\ UNCHANGED <<rows, agents, calls, runs, cancels, posts, placed, now, cnt, hist>>
  /\ UNCHANGED <<crons, payload>>

(* --------- polling dispatcher: cron process-scheduled-calls ----------- *)
\* Lines 19-33: findMany where status PENDING and scheduledTime <= now,
\* orderBy scheduledTime asc, take 10: every order of the due rows that is
\* sorted by time (rows with equal times come in any order), cut to the first
\* CronTake.  Each entry is the row as read: its id and its attempts.
DueCalls(rs, t) ==
  LET due == {i \in 1..Len(rs) : rs[i].status = "PENDING" /\ rs[i].time <= t}
      n == IF Cardinality(due) < CronTake THEN Cardinality(due) ELSE CronTake
  IN {[j \in 1..n |-> [id |-> o[j], attempts |-> rs[o[j]].attempts]] :
        o \in {f \in Orderings(due) :
                 \A x, y \in 1..Cardinality(due) : x < y => rs[f[x]].time <= rs[f[y]].time}}

\* Line 143: scheduledCall.attempts is the value findMany read, before the
\* increment of line 48.
ShouldRetry(attempts) == attempts < MaxAttempts

\* Lines 6-40: a run of the handler reads the due rows; with none it answers
\* 200 at once (line 160).  At most MaxCronOverlap runs are in flight.
K_Begin(limit) ==
  /\ cnt.events < limit
  /\ BagCardinality(crons) < MaxCronOverlap
  /\ cnt' = [cnt EXCEPT !.events = @ + 1]
  /\ \E d \in DueCalls(rows, now) :
        IF d = <<>>
        THEN /\ resp' = Response("cron", NoRow, 200)
             /\ UNCHANGED crons
        ELSE /\ crons' = Put(crons, [due |-> d, pc |-> "mark", ref |-> NoRef])
             /\ resp' = NoResp
  /\ UNCHANGED <<rows, agents, calls, queue, runs, hooks, cancels, posts, placed, now,
                 obs, hist>>
  /\ UNCHANGED payload

\* Lines 42-50: update where {id}: IN_PROGRESS, attempts = the value read + 1.
K_Mark(k) ==
  /\ k \in BagToSet(crons) /\ k.pc = "mark"
  /\ rows' = [rows EXCEPT ![k.due[1].id].status = "IN_PROGRESS",
                          ![k.due[1].id].attempts = k.due[1].attempts + 1]
  /\ crons' = Swap(crons, k, [k EXCEPT !.pc = "place"])
  /\ resp' = NoResp
  /\ UNCHANGED <<agents, calls, queue, runs, hooks, cancels, posts, placed, now, cnt,
                 obs, hist>>
  /\ UNCHANGED payload

\* Lines 52-104: the placement, with the outcomes of T_Place.
K_Place(k, outcome) ==
  /\ k \in BagToSet(crons) /\ k.pc = "place"
  /\ hist' = IF outcome = "nokey" THEN hist
             ELSE [hist EXCEPT ![k.due[1].id].placements = @ + 1]
  /\ IF outcome = "ok"
     THEN /\ placed' = Append(placed, k.due[1].id)
          /\ crons' = Swap(crons, k, [k EXCEPT !.pc = "call", !.ref = Len(placed) + 1])
     ELSE /\ crons' = Swap(crons, k, [k EXCEPT !.pc = "retry"])
          /\ UNCHANGED placed
  /\ resp' = NoResp
  /\ UNCHANGED <<rows, agents, calls, queue, runs, hooks, cancels, posts, now, cnt, obs>>
  /\ UNCHANGED payload

\* Lines 106-125: create the Call record; a Call with this reference makes
\* the insert throw into the catch block of line 139.
K_CreateCall(k) ==
  /\ k \in BagToSet(crons) /\ k.pc = "call"
  /\ IF \E c \in calls : c.ref = k.ref
     THEN /\ crons' = Swap(crons, k, [k EXCEPT !.pc = "retry"])
          /\ UNCHANGED calls
     ELSE /\ calls' = calls \cup {[ref |-> k.ref, org |-> rows[k.due[1].id].org,
                                   contact |-> rows[k.due[1].id].contact, by |-> "cron"]}
          /\ crons' = Swap(crons, k, [k EXCEPT !.pc = "complete"])
  /\ resp' = NoResp
  /\ UNCHANGED <<rows, agents, queue, runs, hooks, cancels, posts, placed, now, cnt,
                 obs, hist>>
  /\ UNCHANGED payload

\* Lines 157-164: the loop goes on to the next due row; after the last one
\* the handler answers 200.
K_Advance(k) ==
  IF Len(k.due) = 1
  THEN /\ crons' = Take(crons, k)
       /\ resp' = Response("cron", NoRow, 200)
  ELSE /\ crons' = Swap(crons, k, [due |-> Tail(k.due), pc |-> "mark", ref |-> NoRef])
       /\ resp' = NoResp

\* Lines 127-138: update where {id}: COMPLETED, retellCallId, callId,
\* executedAt.
K_Complete(k) ==
  /\ k \in BagToSet(crons) /\ k.pc = "complete"
  /\ rows' = [rows EXCEPT ![k.due[1].id].status = "COMPLETED",
                          ![k.due[1].id].ref = k.ref,
                          ![k.due[1].id].callId = k.ref,
                          ![k.due[1].id].executed = TRUE]
  /\ hist' = [hist EXCEPT ![k.due[1].id].terminals = @ + 1]
  /\ K_Advance(k)
  /\ UNCHANGED <<agents, calls, queue, runs, hooks, cancels, posts, placed, now, cnt, obs>>
  /\ UNCHANGED payload

\* Lines 139-155: the catch block: update where {id}: PENDING for a retry or
\* FAILED, with the error message.
K_Retry(k) ==
  /\ k \in BagToSet(crons) /\ k.pc = "retry"
  /\ LET retry == ShouldRetry(k.due[1].attempts)
     IN /\ rows' = [rows EXCEPT ![k.due[1].id].status = IF retry THEN "PENDING" ELSE "FAILED",
                                ![k.due[1].id].err = TRUE]
        /\ hist' = IF retry THEN hist
                   ELSE [hist EXCEPT ![k.due[1].id].terminals = @ + 1]
  /\ K_Advance(k)
  /\ UNCHANGED <<agents, calls, queue, runs, hooks, cancels, posts, placed, now, cnt, obs>>
  /\ UNCHANGED payload

\* Time passes until some row's scheduledTime.
Pass ==
  /\ \E i \in RowIds : rows[i].time > now /\ now' = rows[i].time
  /\ resp' = NoResp
  /\ UNCHANGED <<rows, agents, calls, queue, runs, hooks, cancels, posts, placed, cnt,
                 obs, hist, crons>>
  /\ UNCHANGED payload

(* ---------------- dispatch payload: dynamic variables ----------------- *)
\* An object literal with spreads: a key defined again takes the later value.
Spread(a, b) ==
  [k \in DOMAIN a \cup DOMAIN b |-> IF k \in DOMAIN b THEN b[k] ELSE a[k]]

\* The contact's built-in fields (trigger lines 212-216, cron lines 63-67):
\* all five keys are always present, empty when the contact has no value.
ContactVariables ==
  [k \in {"contact_name", "contact_phone", "contact_email", "business_name",
          "business_website"} |-> "contact"]

\* getGreeting (cron lines 174-179), by the hour of the day.
GetGreeting(hour) ==
  IF hour < 12 THEN "Good morning"
  ELSE IF hour < 18 THEN "Good afternoon"
  ELSE "Good evening"

\* The variable map the dispatch trigger sends (lines 208-229).
TriggerVariables(custom, provided) ==
  Spread(Spread(Spread(ContactVariables, custom), provided),
         [k \in {"current_date", "current_time"} |-> "computed"])

\* The variable map the polling dispatcher sends (lines 59-81).
CronVariables(custom, provided, hour) ==
  Spread(Spread(Spread(ContactVariables, custom), provided),
         [k \in {"current_date", "current_time", "greeting"} |->
            IF k = "greeting" THEN GetGreeting(hour) ELSE "computed"])

\* A placement request is built by the trigger or by the polling dispatcher.
BuildPayload(by) ==
  /\ payload.by = "none"
  /\ payload' = [payload EXCEPT
        !.by = by,
        !.sent = IF by = "trigger"
                 THEN TriggerVariables(payload.custom, payload.provided)
                 ELSE CronVariables(payload.custom, payload.provided, payload.hour)]
  /\ UNCHANGED <<rows, agents, calls, queue, runs, hooks, cancels, posts, placed, now,
                 cnt, resp, obs, hist, crons>>

(* ------------------------------- clock -------------------------------- *)
\* Time passes.  The handlers modelled here never read the clock; only the
\* delivery service does, so it is observed when a held message falls due.
Tick ==
  /\ \E m \in queue : m.nb > now /\ now' = m.nb
  /\ resp' = NoResp
  /\ UNCHANGED <<rows, agents, calls, queue, runs, hooks, cancels, posts, placed, cnt,
                 obs, hist>>
  /\ UNCHANGED <<crons, payload>>

(* --------------------------- specifications --------------------------- *)
ContactLists ==
  UNION {[1..n -> Contacts] : n \in 1..MaxContacts}

Starts == {k * (Stagger + Buffer) : k \in 0..MaxStartSlot}

Init ==
  /\ rows = <<>>
  /\ agents = [a \in AgentIds |-> NoOrg]
  /\ calls = {}
  /\ queue = {}
  /\ runs = EmptyBag
  /\ hooks = EmptyBag
  /\ cancels = EmptyBag
  /\ posts = EmptyBag
  /\ placed = <<>>
  /\ now = 0
  /\ cnt = [posts |-> 0, batches |-> 0, events |-> 0]
  /\ resp = NoResp
  /\ obs = [pub |-> {}, analyzed |-> {}, chained |-> {}, cancelled |-> {}]
  /\ hist = <<>>
  /\ crons = EmptyBag
  /\ payload = NoPayload

\* The steps of the dispatch trigger runs in flight.
Trigger(outcomes, pubs) ==
  \/ \E r \in BagToSet(runs) : T_Mark(r)
  \/ \E r \in BagToSet(runs), o \in outcomes : T_Place(r, o)
  \/ \E r \in BagToSet(runs) : T_Complete(r)
  \/ \E r \in BagToSet(runs) : T_CreateCall(r)
  \/ \E r \in BagToSet(runs) : T_Fail(r)
  \/ \E r \in BagToSet(runs) : T_Recover(r)
  \/ \E r \in BagToSet(runs), ok \in pubs : T_Publish(r, ok)

\* The steps of the call_analyzed webhook runs in flight.
Hook(pubs) ==
  \/ \E h \in BagToSet(hooks) : H_Current(h)
  \/ \E h \in BagToSet(hooks) : H_Next(h)
  \/ \E h \in BagToSet(hooks), ok \in pubs : H_Publish(h, ok)

PlaceOutcomes == {"ok", "error", "nokey"}

Chain(limit) ==
  \/ \E m \in queue, keep \in BOOLEAN : Deliver(limit, m, keep)
  \/ Trigger(PlaceOutcomes, BOOLEAN)
  \/ \E ref \in Refs : CallStarted(ref)
  \/ \E ref \in Refs : H_Begin(limit, ref)
  \/ Hook(BOOLEAN)
  \/ Tick

Cancel(limit, orgs) ==
  \/ \E org \in orgs, id \in RowIds : CancelRead(limit, org, id)
  \/ \E c \in BagToSet(cancels) : CancelWrite(c)

Requests(starts) == [org : Orgs, ids : ContactLists, start : starts, agent : AgentIds]

Submit(limit, reqs) ==
  \E q \in reqs : P_Begin(limit, q.org, q.ids, q.start, q.agent)

Create(pubs) ==
  \E p \in BagToSet(posts), idx \in 1..MaxContacts, ok \in pubs : P_Create(p, idx, ok)

Plan(limit, reqs) ==
  \/ Submit(limit, reqs)
  \/ \E p \in BagToSet(posts) : P_Last(p)
  \/ Create(BOOLEAN)

\* The planner on its own, over a store that earlier traffic has left behind:
\* one row of any tenant, in any status, at a minute up to MaxSeedTime that is
\* the requested start, an end of a request's conflict window, or next to one.
WindowEdges ==
  {PlanStart, PlanStart - Lookback}
     \cup {PlanStart + n * Stagger + Buffer : n \in 1..MaxContacts}

SeedTimes == {t \in 0..MaxSeedTime : \E e \in WindowEdges : t \in {e - 1, e, e + 1}}

SeedRow(org, status, time) ==
  [NewRow(org, 1, IF org = 1 THEN 1 ELSE 3, org, time) EXCEPT
     !.status = status,
     !.attempts = IF status \in {"PENDING", "CANCELLED"} THEN 0 ELSE 1,
     !.ref = IF status = "COMPLETED" THEN 1 ELSE NoRef,
     !.err = (status = "FAILED"),
     !.executed = (status = "COMPLETED")]

InitPlan ==
  \E org \in Orgs, status \in Statuses, time \in SeedTimes :
    LET seed == SeedRow(org, status, time)
    IN /\ rows = <<seed>>
       /\ agents = [a \in AgentIds |-> IF a = org THEN org ELSE NoOrg]
       /\ calls = IF status = "COMPLETED"
                  THEN {[ref |-> 1, org |-> org, contact |-> seed.contact, by |-> "trigger"]}
                  ELSE {}
       /\ placed = IF status = "COMPLETED" THEN <<1>> ELSE <<>>
       /\ hist = <<[placements |-> IF status \in {"PENDING", "CANCELLED"} THEN 0 ELSE 1,
                    terminals |-> IF status \in ActiveStatuses THEN 0 ELSE 1]>>
       /\ queue = IF status = "PENDING" THEN {[id |-> 1, nb |-> time]} ELSE {}
       /\ obs = [pub |-> {[id |-> 1, nb |-> time, by |-> "create"]}, analyzed |-> {}, chained |-> {},
                 cancelled |-> IF status = "CANCELLED" THEN {1} ELSE {}]
       /\ runs = IF status = "IN_PROGRESS"
                 THEN SetToBag({[id |-> 1, pc |-> "place", ref |-> NoRef, next |-> NoRow]})
                 ELSE EmptyBag
       /\ hooks = EmptyBag
       /\ cancels = EmptyBag
       /\ posts = EmptyBag
       /\ now = time
       /\ cnt = [posts |-> 1, batches |-> 1, events |-> 0]
       /\ resp = NoResp
       /\ crons = EmptyBag
       /\ payload = NoPayload

\* Requests at PlanStart by a tenant using the agent registered to it; the
\* cancel requests come from tenant 1.
PlanRequests == {q \in Requests({PlanStart}) : q.agent = q.org}

NextPlan == Plan(1 + MaxPlanPosts, PlanRequests) \/ Cancel(MaxPlanEvents, {1})

SpecPlan == InitPlan /\ [][NextPlan]_vars

\* Admission of requests: tenants sharing the agent identifiers, each request
\* naming any contacts and any agent, into a store that starts empty.
NextAdmit == Plan(MaxAdmitPosts, Requests({PlanStart}))

SpecAdmit == Init /\ [][NextAdmit]_vars

\* Continuations over a store that holds rows of several tenants and batches,
\* among them rows without batchId as the earlier versions of the POST
\* handler created them (part_006 lines 124-134, part_007 lines 113-123).
\* Row 1 is due next and registered; the other rows are PENDING or CANCELLED.
\* A batchId belongs to one request: its rows have one tenant and staggered,
\* hence different, times.
MixedTimes == {Stagger, 2 * Stagger}

MixedRow(org, batch, time, status) ==
  [NewRow(org, batch, IF org = 1 THEN 1 ELSE 3, org, time) EXCEPT !.status = status]

MixedStores ==
  {st \in [1..3 -> {MixedRow(o, b, t, s) : o \in Orgs, b \in {NoBatch} \cup 1..MaxMixedBatch,
                                          t \in MixedTimes, s \in {"PENDING", "CANCELLED"}}] :
      /\ st[1].org = 1 /\ st[1].time = Stagger /\ st[1].status = "PENDING"
      /\ \A i, j \in 1..3 :
            (i # j /\ st[i].batch = st[j].batch /\ st[i].batch # NoBatch) =>
               (st[i].org = st[j].org /\ st[i].time # st[j].time)}

InitMixed ==
  \E st \in MixedStores :
     /\ rows = [i \in 1..3 |-> st[i]]
     /\ agents = [a \in AgentIds |-> a]
     /\ calls = {}
     /\ queue = {[id |-> 1, nb |-> st[1].time]}
     /\ runs = EmptyBag
     /\ hooks = EmptyBag
     /\ cancels = EmptyBag
     /\ posts = EmptyBag
     /\ placed = <<>>
     /\ now = 0
     /\ cnt = [posts |-> 3, batches |-> MaxMixedBatch, events |-> 0]
     /\ resp = NoResp
     /\ obs = [pub |-> {[id |-> 1, nb |-> st[1].time, by |-> "create"]}, analyzed |-> {}, chained |-> {},
               cancelled |-> {i \in 1..3 : st[i].status = "CANCELLED"}]
     /\ hist = [i \in 1..3 |-> [placements |-> 0,
                                 terminals |-> IF st[i].status = "CANCELLED" THEN 1 ELSE 0]]
     /\ crons = EmptyBag
     /\ payload = NoPayload

SpecMixed == InitMixed /\ [][Chain(MaxMixedEvents)]_vars

\* The polling dispatcher over one batch: the endpoint is called at any
\* moment once the earlier call of it has answered (the schedule calls it
\* once a minute), and the provider's call_started may arrive for a call it
\* accepted.  The delivery service delivers nothing here: the trigger and the
\* call_analyzed webhook have no step.
CronRequests == {q \in Requests({0}) : q.org = 1 /\ q.agent = 1}

Cron(limit) ==
  \/ K_Begin(limit)
  \/ \E k \in BagToSet(crons) : K_Mark(k)
  \/ \E k \in BagToSet(crons), o \in PlaceOutcomes : K_Place(k, o)
  \/ \E k \in BagToSet(crons) : K_CreateCall(k)
  \/ \E k \in BagToSet(crons) : K_Complete(k)
  \/ \E k \in BagToSet(crons) : K_Retry(k)

NextCron ==
  \/ Submit(MaxPosts, CronRequests)
  \/ Create({TRUE})
  \/ Cron(MaxCronRuns)
  \/ \E ref \in Refs : CallStarted(ref)
  \/ Pass

SpecCron == Init /\ [][NextCron]_vars

\* The variable map on its own: the contact's custom fields and the caller's
\* overrides are any maps over keys that collide with a built-in key, with a
\* computed key, with each other, or with nothing; the hour is on either side
\* of the greeting's limits.
PayloadKeys == {"contact_name", "current_date", "greeting", "offer"}

Maps(tag) == UNION {[ks -> {tag}] : ks \in SUBSET PayloadKeys}

PayloadHours == {11, 12, 17, 18}

InitPayload ==
  /\ rows = <<>>
  /\ agents = [a \in AgentIds |-> NoOrg]
  /\ calls = {}
  /\ queue = {}
  /\ runs = EmptyBag
  /\ hooks = EmptyBag
  /\ cancels = EmptyBag
  /\ posts = EmptyBag
  /\ placed = <<>>
  /\ now = 0
  /\ cnt = [posts |-> 0, batches |-> 0, events |-> 0]
  /\ resp = NoResp
  /\ obs = [pub |-> {}, analyzed |-> {}, chained |-> {}, cancelled |-> {}]
  /\ hist = <<>>
  /\ crons = EmptyBag
  /\ \E c \in Maps("custom"), p \in Maps("provided"), h \in PayloadHours :
        payload = [custom |-> c, provided |-> p, hour |-> h, by |-> "none", sent |-> <<>>]

NextPayload == BuildPayload("trigger") \/ BuildPayload("cron")

SpecPayload == InitPayload /\ [][NextPayload]_vars

\* One batch and its chain.  A single request into an empty store finds no
\* conflict, so the append lookup has no step here.
Next ==
  \/ Submit(MaxPosts, Requests(Starts))
  \/ Create(BOOLEAN)
  \/ Cancel(MaxEvents, Orgs)
  \/ Chain(MaxEvents)

Spec == Init /\ [][Next]_vars

\* The chain under the conditions of batch progress: every publish is
\* accepted, every message is delivered, once; the provider sends call_analyzed
\* once for every call it accepted; nobody cancels.  The event budget is
\* chosen so that it never binds.
LiveEvents == MaxPosts * 2 ^ (MaxContacts + 1)

LiveRequests == {q \in Requests(Starts) : q.org = 1 /\ q.agent = 1}

Delivery == \E m \in queue : Deliver(LiveEvents, m, FALSE)

Analysis == \E ref \in Refs \ obs.analyzed : H_Begin(LiveEvents, ref)

NextLive ==
  \/ Submit(MaxPosts, LiveRequests)
  \/ Create({TRUE})
  \/ Delivery
  \/ Trigger(PlaceOutcomes, {TRUE})
  \/ \E ref \in Refs : CallStarted(ref)
  \/ Analysis
  \/ Hook({TRUE})
  \/ Tick

\* Handlers run to completion, the delivery service delivers what it holds
\* once it is due, and the provider's call_analyzed arrives.
SpecLive ==
  /\ Init /\ [][NextLive]_vars
  /\ WF_vars(Create({TRUE}))
  /\ WF_vars(Delivery)
  /\ WF_vars(Trigger(PlaceOutcomes, {TRUE}))
  /\ WF_vars(Analysis)
  /\ WF_vars(Hook({TRUE}))
  /\ WF_vars(Tick)

\* The chain after the first call of a batch: the first row is COMPLETED,
\* its Call record exists, the provider is about to send call_analyzed for
\* it and may send it again; the other rows are PENDING and not registered.
\* The batch is of tenant 1 and names its contacts 1, 2 and a further one.
MaxRepeatRows == 3
MaxRepeatEvents == 3

InitRepeat ==
  /\ rows = [i \in 1..MaxRepeatRows |->
               IF i = 1
               THEN [NewRow(1, 1, 1, 1, 0) EXCEPT !.status = "COMPLETED", !.attempts = 1,
                                                  !.ref = 1, !.executed = TRUE]
               ELSE NewRow(1, 1, IF i <= 2 THEN i ELSE i + 1, 1, CallTime(0, i - 1))]
  /\ agents = [a \in AgentIds |-> IF a = 1 THEN 1 ELSE NoOrg]
  /\ calls = {[ref |-> 1, org |-> 1, contact |-> 1, by |-> "trigger"]}
  /\ queue = {}
  /\ runs = EmptyBag
  /\ hooks = EmptyBag
  /\ cancels = EmptyBag
  /\ posts = EmptyBag
  /\ placed = <<1>>
  /\ now = 0
  /\ cnt = [posts |-> 1, batches |-> 1, events |-> 0]
  /\ resp = NoResp
  /\ obs = [pub |-> {[id |-> 1, nb |-> 0, by |-> "create"]}, analyzed |-> {},
            chained |-> {}, cancelled |-> {}]
  /\ hist = [i \in 1..MaxRepeatRows |->
               IF i = 1 THEN [placements |-> 1, terminals |-> 1]
               ELSE [placements |-> 0, terminals |-> 0]]
  /\ crons = EmptyBag
  /\ payload = NoPayload

NextRepeat ==
  \/ \E m \in queue : Deliver(MaxRepeatEvents, m, FALSE)
  \/ Trigger(PlaceOutcomes, BOOLEAN)
  \/ \E ref \in Refs : CallStarted(ref)
  \/ \E ref \in Refs : H_Begin(MaxRepeatEvents, ref)
  \/ Hook(BOOLEAN)

SpecRepeat == InitRepeat /\ [][NextRepeat]_vars

\* The chain of a batch that is completely created and not yet due, under
\* the same conditions, with one cancel request by the tenant before anything
\* is delivered: the rows are in the store, the first one is registered for
\* the batch start, the clock is before it.
LiveStart == Stagger + Buffer

InitCreated ==
  /\ rows = [i \in 1..MaxContacts |-> NewRow(1, 1, i, 1, CallTime(LiveStart, i - 1))]
  /\ agents = [a \in AgentIds |-> IF a = 1 THEN 1 ELSE NoOrg]
  /\ calls = {}
  /\ queue = {[id |-> 1, nb |-> NotBefore(LiveStart)]}
  /\ runs = EmptyBag
  /\ hooks = EmptyBag
  /\ cancels = EmptyBag
  /\ posts = EmptyBag
  /\ placed = <<>>
  /\ now = 0
  /\ cnt = [posts |-> 1, batches |-> 1, events |-> 0]
  /\ resp = NoResp
  /\ obs = [pub |-> {[id |-> 1, nb |-> NotBefore(LiveStart), by |-> "create"]},
            analyzed |-> {}, chained |-> {}, cancelled |-> {}]
  /\ hist = [i \in 1..MaxContacts |-> [placements |-> 0, terminals |-> 0]]
  /\ crons = EmptyBag
  /\ payload = NoPayload

CancelFirst == \E id \in RowIds : CancelRead(1, 1, id)

CancelDone == \E c \in BagToSet(cancels) : CancelWrite(c)

NextLiveCancel ==
  \/ CancelFirst
  \/ CancelDone
  \/ Delivery
  \/ Trigger(PlaceOutcomes, {TRUE})
  \/ \E ref \in Refs : CallStarted(ref)
  \/ Analysis
  \/ Hook({TRUE})
  \/ Tick

SpecLiveCancel ==
  /\ InitCreated /\ [][NextLiveCancel]_vars
  /\ WF_vars(CancelDone)
  /\ WF_vars(Delivery)
  /\ WF_vars(Trigger(PlaceOutcomes, {TRUE}))
  /\ WF_vars(Analysis)
  /\ WF_vars(Hook({TRUE}))
  /\ WF_vars(Tick)

(* ======================= properties of the planner ==================== *)
\* Handler runs that a step starts or moves to, and those it moves from.
NewPosts == {p \in BagToSet(posts') : CopiesIn(p, posts') > CopiesIn(p, posts)}
GonePosts == {p \in BagToSet(posts) : CopiesIn(p, posts') < CopiesIn(p, posts)}

\* The fire times of the tenant's PENDING / IN_PROGRESS rows.
ActiveTimes(org) ==
  {rows[i].time : i \in {j \in RowIds : rows[j].org = org /\ rows[j].status \in ActiveStatuses}}

MaxOf(S) == CHOOSE t \in S : \A u \in S : u <= t

\* The rows of batch b after the step, and the position of contact c in the
\* request's contact id list.
BatchOf(b) == {j \in 1..Len(rows') : rows'[j].batch = b}

Position(ids, c) == CHOOSE i \in 1..Len(ids) : ids[i] = c

\* C8: a request of N contacts without conflict creates exactly N rows, all
\* PENDING, of one fresh batch, and the row of the i-th contact of the
\* request's contact id list (i from 0) fires at the requested start + i * 2.
C8_InputOrder ==
  [][\A p \in GonePosts :
       (p.pc = "create" /\ ~ p.conflict) =>
          LET new == rows'[Len(rows')]
          IN /\ Len(rows') = Len(rows) + 1
             /\ new.status = "PENDING"
             /\ IF p.batch = NoBatch
                THEN \A k \in RowIds : rows[k].batch # new.batch
                ELSE new.batch = p.batch
             /\ new.time = p.start + (Position(p.ids, new.contact) - 1) * 2
             /\ NewPosts = {} => Cardinality(BatchOf(new.batch)) = Len(p.ids)]_vars

WindowHit(org, lo, hi) ==
  \E i \in RowIds : /\ rows[i].org = org
                    /\ rows[i].status \in {"PENDING", "IN_PROGRESS"}
                    /\ rows[i].time \in lo..hi

\* C10 as stated: a request takes the conflict branch exactly when an active
\* row of its tenant fires within [start - 12, start + 2N + 10], ends included.
C10_ClosedWindow ==
  [][\A q \in NewPosts :
       GonePosts = {} =>
          (q.conflict <=>
             WindowHit(q.org, q.start - 12, q.start + 2 * Len(q.ids) + 10))]_vars

\* C10 amended: a request takes the conflict branch exactly when an active
\* row of its tenant fires strictly inside (start - 12, start + 2N + 10);
\* rows that are COMPLETED, FAILED or CANCELLED never count.
C10_OpenWindow ==
  [][\A q \in NewPosts :
       GonePosts = {} =>
          (q.conflict <=>
             WindowHit(q.org, q.start - 12 + 1, q.start + 2 * Len(q.ids) + 10 - 1))]_vars

\* A request admitted without conflict although an active row of its tenant
\* fires exactly at the lower end of the window.
C10_Witness ==
  \E p \in BagToSet(posts) :
     /\ ~ p.conflict
     /\ \E i \in RowIds : /\ rows[i].org = p.org
                          /\ rows[i].status \in ActiveStatuses
                          /\ rows[i].time = p.start - 12

(* ================== properties of the dispatch chain ================== *)
NewRuns == {r \in BagToSet(runs') : CopiesIn(r, runs') > CopiesIn(r, runs)}
GoneRuns == {r \in BagToSet(runs) : CopiesIn(r, runs') < CopiesIn(r, runs)}
NewHooks == {h \in BagToSet(hooks') : CopiesIn(h, hooks') > CopiesIn(h, hooks)}
GoneHooks == {h \in BagToSet(hooks) : CopiesIn(h, hooks') < CopiesIn(h, hooks)}

\* C1: in every reachable state at most one row of any batch is IN_PROGRESS.
C1_SingleFlight ==
  \A i, j \in RowIds :
     (/\ rows[i].batch = rows[j].batch
      /\ rows[i].status = "IN_PROGRESS"
      /\ rows[j].status = "IN_PROGRESS") => i = j

\* C2: however the deliveries of a row's trigger interleave, the row sees at
\* most one telephony placement and at most one terminal transition.
C2_OnePlacement ==
  \A i \in RowIds :
     (i \notin obs.cancelled /\ ~ BagIn([id |-> i], cancels)) =>
        /\ hist[i].placements <= 1
        /\ hist[i].terminals <= 1

\* The PENDING rows of row k's batch, and the one due first among them.
PendingAfter(k) ==
  {i \in RowIds : /\ rows[i].org = rows[k].org
                  /\ rows[i].batch = rows[k].batch
                  /\ rows[i].status = "PENDING"}

FirstDue(S) ==
  CHOOSE i \in S : \A j \in S : rows[i].time < rows[j].time
                                \/ (rows[i].time = rows[j].time /\ i <= j)

Placed(k) == \E ref \in Refs : placed[ref] = k
Analyzed(k) == \E ref \in obs.analyzed : placed[ref] = k

\* Row j is the row after row k in their batch.
Follows(j, k) == rows[j].batch = rows[k].batch /\ rows[j].time = rows[k].time + Stagger

\* C4: a continuation registers row k+1 of a batch, whose row k was placed with
\* success, only after a completion webhook for a call of row k has arrived.
C4_WaitsForWebhook ==
  [][\A p \in obs'.pub \ obs.pub :
       \A k \in RowIds :
          (p.by # "create" /\ Follows(p.id, k) /\ Placed(k)) => Analyzed(k)]_vars

BatchExists(b) == \E i \in RowIds : rows[i].batch = b

BatchDone(b) == \A i \in RowIds : rows[i].batch = b => rows[i].status \in {"COMPLETED", "FAILED"}

\* C5: with every publish accepted and delivered, a completion webhook for
\* every accepted call and no cancellation, every batch that was created
\* eventually has all its rows COMPLETED or FAILED.
C5_BatchProgress ==
  \A b \in 1..MaxPosts : BatchExists(b) ~> BatchDone(b)

\* C6: once a cancel request has answered success for a row, the row stays
\* CANCELLED, no placement is made for it and no continuation selects it.
C6_CancelledNeverDispatched ==
  [][\A i \in obs.cancelled :
       /\ rows'[i].status = "CANCELLED"
       /\ hist'[i].placements = hist[i].placements
       /\ \A r \in NewRuns \cup NewHooks : r.next # i]_vars

NewCancels == {c \in BagToSet(cancels') : CopiesIn(c, cancels') > CopiesIn(c, cancels)}

\* C7: a cancel request of the row's tenant that finds the row COMPLETED,
\* FAILED, IN_PROGRESS or CANCELLED is answered 400, is not admitted to the
\* write and leaves the row, and the rest of the store, as it was.
C7_InvalidState ==
  [][/\ \A c \in NewCancels : rows[c.id].status = "PENDING"
     /\ (cnt'.events = cnt.events + 1 /\ resp'.h = "cancel") =>
           /\ resp'.status = IF resp'.org # rows[resp'.id].org THEN 403 ELSE 400
           /\ resp'.status = 400 => rows[resp'.id].status # "PENDING"
           /\ rows' = rows /\ calls' = calls /\ queue' = queue
           /\ cancels' = cancels /\ hist' = hist]_vars

\* A cancel request of the row's tenant was refused for a call in flight.
C7_Witness ==
  /\ resp.h = "cancel" /\ resp.status = 400
  /\ resp.org = rows[resp.id].org
  /\ rows[resp.id].status = "IN_PROGRESS"

(* ===================== properties of tenant batches =================== *)
\* The fire times of the PENDING / IN_PROGRESS rows of batch b.
ActiveOf(b) ==
  {rows[i].time : i \in {j \in RowIds : rows[j].batch = b /\ rows[j].status \in ActiveStatuses}}

\* Every fire time of S lies at least gap minutes before every one of T.
Before(S, T, gap) == \A t \in S, u \in T : t + gap <= u

\* C11: two batches of one tenant that both have PENDING or IN_PROGRESS rows do
\* not interleave: all active fire times of one lie at least 10 minutes before
\* all active fire times of the other.
C11_NoOverlap ==
  \A i, j \in RowIds :
     (/\ rows[i].org = rows[j].org
      /\ rows[i].batch # rows[j].batch
      /\ rows[i].status \in ActiveStatuses
      /\ rows[j].status \in ActiveStatuses) =>
        \/ Before(ActiveOf(rows[i].batch), ActiveOf(rows[j].batch), 10)
        \/ Before(ActiveOf(rows[j].batch), ActiveOf(rows[i].batch), 10)

TerminalStatuses == {"COMPLETED", "CANCELLED", "FAILED"}

\* C14: in the chained path a row whose status is COMPLETED, CANCELLED or
\* FAILED keeps that status in every later step, whatever the step is: a
\* duplicate delivery of its trigger, a cancel request, a provider webhook, or
\* the catch block entered after the row was written COMPLETED.
C14_TerminalIsFinal ==
  [][\A i \in RowIds :
        rows[i].status \in TerminalStatuses => rows'[i].status = rows[i].status]_vars

C16_AcceptedPlacementRecorded ==
  [][\A r \in GoneRuns :
        (r.ref # NoRef /\ NewRuns = {}) =>
           /\ rows'[r.id].status = "COMPLETED"
           /\ rows'[r.id].ref = r.ref
           /\ rows'[r.id].executed
           /\ rows'[r.id].callId # NoRef
           /\ \E c \in calls' : c.ref = rows'[r.id].callId
           /\ Cardinality({c \in calls' : /\ c.ref = r.ref
                                          /\ c.org = rows[r.id].org
                                          /\ c.contact = rows[r.id].contact}) = 1]_vars

(* ------------------------ properties of admission --------------------- *)
\* A batch request was received in this step.
Received == cnt'.posts = cnt.posts + 1

Candidates(k) ==
  {i \in RowIds : /\ rows[i].status = "PENDING"
                  /\ IF rows[k].batch # NoBatch
                     THEN rows[i].batch = rows[k].batch
                     ELSE rows[i].org = rows[k].org /\ rows[i].batch = NoBatch}

\* The lookup for finished row k ends the handler when there is no candidate
\* and otherwise chooses row n, the candidate due first.
Chosen(k, n) ==
  IF Candidates(k) = {} THEN n = NoRow ELSE n = FirstDue(Candidates(k))

\* C20: the lookup of a continuation, in the failure recovery and in the
\* webhook alike, chooses the candidate with the smallest scheduledTime, the
\* one created first among equals; the registration that follows publishes
\* that row and no other, a row of the finished row's batch and organization.
C20_RegistersFirstOfBatch ==
  [][/\ \A r \in GoneRuns :
          /\ r.pc = "recover" =>
                Chosen(r.id, IF NewRuns = {} THEN NoRow
                             ELSE (CHOOSE q \in NewRuns : TRUE).next)
          /\ r.pc = "publish" =>
                /\ queue' \ queue \subseteq {[id |-> r.next, nb |-> NoTime]}
                /\ rows[r.next].batch = rows[r.id].batch
                /\ rows[r.next].org = rows[r.id].org
     /\ \A h \in GoneHooks :
          /\ h.pc = "next" =>
                Chosen(h.cur, IF NewHooks = {} THEN NoRow
                              ELSE (CHOOSE q \in NewHooks : TRUE).next)
          /\ h.pc = "publish" =>
                /\ queue' \ queue \subseteq {[id |-> h.next, nb |-> NoTime]}
                /\ rows[h.next].batch = rows[h.cur].batch
                /\ rows[h.next].org = rows[h.cur].org
     /\ (GoneRuns = {} /\ GoneHooks = {}) => queue' \subseteq queue]_vars

\* The webhook of a finished row without batchId has registered the
\* tenant's next row without batchId, passing over a PENDING row of the
\* tenant that is due no later but belongs to a batch.
C20_Witness ==
  /\ resp.h = "hook" /\ resp.id # NoRow
  /\ rows[resp.id].batch = NoBatch /\ rows[resp.id].status = "COMPLETED"
  /\ \E n, o \in RowIds :
        /\ [id |-> n, nb |-> NoTime, by |-> "webhook"] \in obs.pub
        /\ [id |-> n, nb |-> NoTime] \in queue
        /\ rows[n].batch = NoBatch /\ rows[n].org = rows[resp.id].org
        /\ rows[o].org = rows[n].org /\ rows[o].status = "PENDING"
        /\ rows[o].batch # NoBatch /\ rows[o].time <= rows[n].time /\ o < n

(* ------------------ properties of the polling dispatcher -------------- *)
\* Row i is not the first of its batch: a row of the batch is due earlier.
NotFirst(i) == \E j \in RowIds : rows[j].batch = rows[i].batch /\ rows[j].time < rows[i].time

\* C13: a row that is not the first of its batch goes from PENDING to
\* IN_PROGRESS only when a continuation, the webhook's or the recovery's, has
\* registered it with the delivery service; no dispatcher picks it because
\* its scheduledTime has passed.
C13_OnlyContinuationDispatches ==
  [][\A i \in RowIds :
        (rows[i].status = "PENDING" /\ rows'[i].status = "IN_PROGRESS" /\ NotFirst(i)) =>
           \E e \in obs.pub : e.id = i /\ e.by \in {"webhook", "recovery"}]_vars

\* C19: under the polling dispatcher no row's attempts exceeds maxAttempts and
\* no row has more than maxAttempts placement requests sent for it.
C19_AttemptsBounded ==
  \A i \in RowIds : /\ rows[i].attempts <= MaxAttempts
                     /\ hist[i].placements <= MaxAttempts

(* ------------------- properties of the dispatch payload --------------- *)
\* The four layers in the order of the merge, the last being the computed
\* fields: current date, current time and the greeting of the hour.
Layers ==
  <<ContactVariables, payload.custom, payload.provided,
    [k \in {"current_date", "current_time", "greeting"} |->
       IF k = "greeting" THEN GetGreeting(payload.hour) ELSE "computed"]>>

\* The value of key k in the right-biased merge: that of the last layer
\* defining k.
LastValue(k) ==
  LET n == CHOOSE i \in 1..4 : /\ k \in DOMAIN Layers[i]
                               /\ \A j \in (i + 1)..4 : k \notin DOMAIN Layers[j]
  IN Layers[n][k]

RightBiasedMerge(sent) ==
  /\ DOMAIN sent = UNION {DOMAIN Layers[i] : i \in 1..4}
  /\ \A k \in DOMAIN sent : sent[k] = LastValue(k)

\* C18: the variable map the dispatch trigger sends is the right-biased merge
\* of the contact's built-in fields, its custom fields, the caller's overrides
\* and the computed fields; current_date, current_time and greeting are all
\* present in it with their computed values.
C18_TriggerPayloadMerged ==
  payload.by = "trigger" => RightBiasedMerge(payload.sent)

(* ----------------------- properties of the chain, III ----------------- *)
\* The trigger answered in this step without ending a run: the answer of the
\* guard of line 189.
GuardAnswer == resp'.h = "trigger" /\ GoneRuns = {}

\* C21: a delivery of the trigger for a row that is not PENDING starts no
\* run and is answered 200 with nothing changed: no row, no Call record, no
\* placement, no registration.
C21_NonPendingIsNoOp ==
  [][/\ \A q \in NewRuns : q.pc = "mark" => rows[q.id].status = "PENDING"
     /\ GuardAnswer =>
           /\ resp'.status = 200
           /\ rows[resp'.id].status # "PENDING"
           /\ UNCHANGED <<rows, calls, placed, runs, hooks, cancels, agents, hist, obs>>
           /\ queue' \subseteq queue]_vars

\* A cancelled row's trigger was delivered and answered; the row was never
\* marked and no placement was made for it.
C21_Witness ==
  /\ resp.h = "trigger" /\ resp.status = 200
  /\ rows[resp.id].status = "CANCELLED" /\ rows[resp.id].attempts = 0
  /\ hist[resp.id].placements = 0
  /\ runs = EmptyBag /\ placed = <<>>

\* C22: the continuation, in the recovery of the trigger and in the webhook,
\* leaves every row and every Call record as it is and creates no row; its
\* lookup publishes nothing, its one publish step registers at most one row
\* and ends the handler; with no PENDING row left in the batch the handler
\* ends at the lookup with 200 and nothing registered.
C22_ContinuationFrame ==
  [][/\ \A r \in GoneRuns :
          r.pc \in {"recover", "publish"} =>
             /\ UNCHANGED <<rows, calls, placed, hist>>
             /\ queue \subseteq queue'
             /\ Cardinality(queue' \ queue) <= (IF r.pc = "publish" THEN 1 ELSE 0)
             /\ r.pc = "publish" => NewRuns = {}
             /\ (r.pc = "recover" /\ Candidates(r.id) = {}) =>
                   /\ NewRuns = {} /\ obs' = obs
                   /\ resp'.h = "trigger" /\ resp'.status = 200
     /\ \A h \in GoneHooks :
          h.pc \in {"next", "publish"} =>
             /\ UNCHANGED <<rows, calls, placed, hist>>
             /\ queue \subseteq queue'
             /\ Cardinality(queue' \ queue) <= (IF h.pc = "publish" THEN 1 ELSE 0)
             /\ h.pc = "publish" => NewHooks = {}
             /\ (h.pc = "next" /\ Candidates(h.cur) = {}) =>
                   /\ NewHooks = {} /\ obs' = obs
                   /\ resp'.h = "hook" /\ resp'.status = 200]_vars

\* The webhook of a completed row found its batch exhausted: it answered
\* and nothing is registered, while PENDING rows of other batches remain.
C22_Witness ==
  /\ resp.h = "hook" /\ resp.status = 200 /\ resp.id # NoRow
  /\ rows[resp.id].status = "COMPLETED"
  /\ \A i \in RowIds : rows[i].batch = rows[resp.id].batch => rows[i].status # "PENDING"
  /\ \E i \in RowIds : rows[i].status = "PENDING" /\ rows[i].org = rows[resp.id].org
  /\ queue = {} /\ hooks = EmptyBag
  /\ \A e \in obs.pub : e.by = "create"

\* The publish step of a continuation for row n ended without n's message
\* being held by the delivery service: publishJSON threw.
Refused(n) == [id |-> n, nb |-> NoTime] \notin queue'

\* C23: when the publish of a continuation throws, the handler ends in that
\* step with 200 and leaves no trace of the failure: every row keeps its
\* status, the finished one and the PENDING ones alike, nothing is registered,
\* no message is kept or added for another attempt, and no handler run is
\* started or continued to try again.
C23_PublishFailureSwallowed ==
  [][/\ \A r \in GoneRuns :
          (r.pc = "publish" /\ Refused(r.next)) =>
             /\ resp'.h = "trigger" /\ resp'.id = r.id /\ resp'.status = 200
             /\ runs' = Take(runs, r)
             /\ UNCHANGED <<rows, queue, hooks, calls, placed, obs, hist, cnt>>
     /\ \A h \in GoneHooks :
          (h.pc = "publish" /\ Refused(h.next)) =>
             /\ resp'.h = "hook" /\ resp'.id = h.cur /\ resp'.status = 200
             /\ hooks' = Take(hooks, h)
             /\ UNCHANGED <<rows, queue, runs, calls, placed, obs, hist, cnt>>]_vars

\* The webhook of a completed row found the next row of the batch, its
\* publish threw, and it answered 200: the next row is PENDING and nothing
\* holds a message for it.
C23_Witness ==
  /\ resp.h = "hook" /\ resp.status = 200 /\ resp.id # NoRow
  /\ rows[resp.id].status = "COMPLETED"
  /\ hooks = EmptyBag /\ runs = EmptyBag /\ queue = {}
  /\ \A e \in obs.pub : e.by = "create"
  /\ \E n \in RowIds :
        /\ rows[n].status = "PENDING" /\ rows[n].batch = rows[resp.id].batch
        /\ rows[n].org = rows[resp.id].org

\* C24: whatever the interleaving of a cancel request with a trigger run on
\* the same row, no row goes from IN_PROGRESS to CANCELLED, and no row for
\* which a placement request was sent is written CANCELLED.
C24_CancelNonPreemptive ==
  [][\A i \in RowIds :
        /\ rows[i].status = "IN_PROGRESS" => rows'[i].status # "CANCELLED"
        /\ (rows[i].status # "CANCELLED" /\ rows'[i].status = "CANCELLED") =>
              hist[i].placements = 0]_vars

(* ------------------- properties of cancellation, live ----------------- *)
CancelledSome == \E i \in RowIds : rows[i].status = "CANCELLED"

NonePending == \A i \in RowIds : rows[i].status # "PENDING"

\* C25: with every publish accepted, every message delivered and every
\* completion webhook arriving, a batch in which a row was cancelled still
\* has all its other rows dispatched: eventually no row of it is PENDING.
C25_CancelNeverStalls == CancelledSome ~> NonePending

(* ------------------ properties of repeated webhooks ------------------- *)
\* C26: all deliveries of the completion webhook of one provider call
\* together register at most one row.
C26_RepeatedWebhookOneRow ==
  \A e, f \in obs.chained : e.ref = f.ref => e.id = f.id

(* ------------------ properties of the creation answer ----------------- *)
\* C27: when batch creation has answered 201, a row of the batch, its first,
\* is registered with the delivery service by the creation.
C27_CreatedMeansRegistered ==
  (resp.h = "post" /\ resp.status = 201) =>
     \E e \in obs.pub : /\ e.by = "create"
                         /\ rows[e.id].batch = rows[resp.id].batch
                         /\ \A j \in RowIds : rows[j].batch = rows[e.id].batch =>
                                                  rows[e.id].time <= rows[j].time

(* ------------------- properties of the call reference ----------------- *)
\* C28: in the chained path a row carries a provider call reference only
\* while it is COMPLETED, and the recovery never runs for a row whose call
\* the provider accepted.
C28_RefOnlyIfCompleted ==
  /\ \A i \in RowIds : rows[i].ref # NoRef => rows[i].status = "COMPLETED"
  /\ \A r \in BagToSet(runs) : r.pc \in {"recover", "publish"} => r.ref = NoRef

(* ------------------ deferral against a two-batch store ----------------- *)
\* The planner over a store that two earlier one-contact requests of tenant 1
\* have left behind, both rows still PENDING: an older row at a minute up to
\* MaxOldTime and a later row at least Lookback after it (so neither request
\* conflicted with the other).  One request at DeferStart follows, with
\* cancel requests of tenant 1 running beside it.
DeferStart == 14
MaxOldTime == 2
MaxDeferPosts == 1
MaxDeferEvents == 1

InitDefer ==
  \E old \in 0..MaxOldTime, late \in (DeferStart - 2)..(DeferStart + 1) :
    /\ late >= old + Lookback
    /\ rows = <<SeedRow(1, "PENDING", old),
                [SeedRow(1, "PENDING", late) EXCEPT !.batch = 2]>>
    /\ agents = [a \in AgentIds |-> IF a = 1 THEN 1 ELSE NoOrg]
    /\ calls = {}
    /\ placed = <<>>
    /\ hist = <<[placements |-> 0, terminals |-> 0], [placements |-> 0, terminals |-> 0]>>
    /\ queue = {[id |-> 1, nb |-> old], [id |-> 2, nb |-> late]}
    /\ obs = [pub |-> {[id |-> 1, nb |-> old, by |-> "create"],
                       [id |-> 2, nb |-> late, by |-> "create"]},
              analyzed |-> {}, chained |-> {}, cancelled |-> {}]
    /\ runs = EmptyBag
    /\ hooks = EmptyBag
    /\ cancels = EmptyBag
    /\ posts = EmptyBag
    /\ now = 0
    /\ cnt = [posts |-> 2, batches |-> 2, events |-> 0]
    /\ resp = NoResp
    /\ crons = EmptyBag
    /\ payload = NoPayload

NextDefer ==
  Plan(2 + MaxDeferPosts, Requests({DeferStart})) \/ Cancel(MaxDeferEvents, {1})

SpecDefer == InitDefer /\ [][NextDefer]_vars

\* C29: a request that detected a conflict is given an effective start
\* strictly later than the start it asked for, and every row a request
\* inserts has a scheduledTime no earlier than the requested start.
C29_DeferralOnlyPostpones ==
  [][\A p \in BagToSet(posts) :
       /\ (p.pc = "last" /\ posts' # posts) =>
             \A q \in BagToSet(posts') : q.eff > p.start
       /\ (p.pc = "create" /\ Len(rows') > Len(rows)) =>
             rows'[Len(rows')].time >= p.start]_vars

(* ----------------------- tenant isolation of planning ------------------ *)
\* Stores that agree with rs on every row of tenant org and differ from it
\* in the rows of the other tenants: each such row is dropped or has any
\* status and a fire time before, inside or after the conflict window, and
\* one further row of another tenant may be present.
TwinTimes == {PlanStart - Lookback, PlanStart, MaxSeedTime}

TwinRows(r) == {[r EXCEPT !.status = s, !.time = t] : s \in Statuses, t \in TwinTimes}

RECURSIVE TwinsOf(_, _)
TwinsOf(rs, org) ==
  IF rs = <<>> THEN {<<>>}
  ELSE LET heads == IF Head(rs).org = org THEN {<<Head(rs)>>}
                    ELSE {<<>>} \cup {<<v>> : v \in TwinRows(Head(rs))}
       IN {h \o t : h \in heads, t \in TwinsOf(Tail(rs), org)}

Twins(rs, org) ==
  LET extra == {<<>>} \cup {<<SeedRow(o, s, t)>> :
                               o \in Orgs \ {org}, s \in Statuses, t \in TwinTimes}
  IN {t \o e : t \in TwinsOf(rs, org), e \in extra}

\* C30: what a request reads for its planning is the same in every store that
\* agrees with the current one on the requesting tenant's rows: the conflict
\* query gives the same answer, the lookup of the last active row gives the
\* same effective start, and an inserted row's scheduledTime is the effective
\* start plus the stagger of its position.
C30_PlanningTenantIsolated ==
  [][/\ \A q \in BagToSet(posts') :
          CopiesIn(q, posts') > CopiesIn(q, posts) =>
            \A rs2 \in Twins(rows, q.org) :
               /\ cnt'.posts > cnt.posts =>
                    q.conflict = ConflictingCall(rs2, q.org, q.start, Len(q.contacts))
               /\ (\E p \in BagToSet(posts) :
                      p.pc = "last" /\ CopiesIn(p, posts') < CopiesIn(p, posts)) =>
                    q.eff = AdjustedStart(rs2, q.org, q.start)
     /\ Len(rows') > Len(rows) =>
          \E p \in BagToSet(posts), idx \in 1..MaxContacts :
             /\ p.pc = "create" /\ idx \in p.todo
             /\ p.eff = IF p.conflict THEN p.eff ELSE p.start
             /\ rows'[Len(rows')].time = CallTime(p.eff, idx - 1)]_vars

\* A PENDING row of another tenant lies inside the window of a request that
\* was planned without a conflict and has its row at the requested start.
C30_Witness ==
  \E i, j \in RowIds :
     /\ rows[i].org # rows[j].org
     /\ rows[i].status = "PENDING" /\ i < j
     /\ ConflictingCallOfAnyTenant(SubSeq(rows, 1, j - 1), rows[j].org, PlanStart, 1)
     /\ ~ConflictingCall(SubSeq(rows, 1, j - 1), rows[j].org, PlanStart, 1)
     /\ rows[j].time = PlanStart

====
